---------------------------- MODULE Spec2Model ----------------------------
(***************************************************************************)
(* iosplit: the event loop of src/main.rs.  A child's stdout and stderr    *)
(* are read into two buffers and shown in two scrollable panels; one frame *)
(* is drawn after every handled event.                                     *)
(*                                                                         *)
(* usize values are held in two's-complement view: a negative k stands for *)
(* the usize 2^64 + k (the result of a wrapped subtraction), so that the   *)
(* wrapping arithmetic of a build without overflow checks is exact on the  *)
(* small magnitudes the model reaches.                                     *)
(***************************************************************************)
EXTENDS Integers, Sequences, FiniteSets, TLC

VARIABLES
    stdout_buf,            \* Vec<String>: the chunks read from the child's stdout
    stderr_buf,            \* Vec<String>: the chunks read from the child's stderr
    read_stdout,           \* bool: stdout is still read
    read_stderr,           \* bool: stderr is still read
    stdout_scroll_offset,  \* usize
    stderr_scroll_offset,  \* usize
    stdout_autoscroll,     \* bool
    stderr_autoscroll,     \* bool
    active_widget,         \* ActiveWidget
    scroll_page,           \* usize, a local of one iteration (0 outside its scope)
    pc,                    \* position of main: "start", "top", "select", "draw", and
                           \* where it ends: "usage", "failed", "done", "panic"
    area,                  \* frame.area() of the last frame drawn, NoFrame before it
    last_event,            \* history: the event handled in this iteration, until its frame
    before,                \* history: both offsets when that event was taken
    args,                  \* the command line after arg0, until it is moved into the Command
    child,                 \* bool: the child was spawned, stdout and stderr piped
    raw_mode,              \* bool: the terminal is in raw mode, on the alternate screen
    usage_printed,         \* bool: print_usage has written to the standard error
    exit,                  \* what main has returned: "none", "Ok", "Err", "panic"
    out_pipe,              \* bytes the child wrote to its stdout that are not read yet
    out_sent,              \* history: all the bytes the child wrote to its stdout
    esc_pending            \* bool: an Escape key press waits at the head of the event stream

vars == <<stdout_buf, stderr_buf, read_stdout, read_stderr,
          stdout_scroll_offset, stderr_scroll_offset,
          stdout_autoscroll, stderr_autoscroll, active_widget, scroll_page,
          pc, area, last_event, before,
          args, child, raw_mode, usage_printed, exit, out_pipe, out_sent,
          esc_pending>>

bufs    == <<stdout_buf, stderr_buf>>
flags   == <<read_stdout, read_stderr>>
scrolls == <<stdout_scroll_offset, stderr_scroll_offset,
             stdout_autoscroll, stderr_autoscroll>>
proc    == <<args, child, raw_mode, usage_printed, exit>>
inputs  == <<out_pipe, out_sent, esc_pending>>

---------------------------------------------------------------------------
(* Bounds of the model *)

\* chunks read from the child, both streams together
MaxChunks == 2

\* what one read delivers: two words and a newline, which wrap to one line
\* or to two by the width of the panel
Chunks == { <<"a", " ", "a", "\n">> }

\* a read of 49 newlines: fifty wrapped lines
BigChunk == [i \in 1..49 |-> "\n"]

\* a read of 65540 newlines: 65541 wrapped lines, more than a u16 counts
HugeChunk == [i \in 1..65540 |-> "\n"]

\* terminal sizes (columns, rows); an even number of columns, at least 6,
\* so that each panel is width \div 2 columns and its inner width is >= 1
TermSizes == [width : {6, 10}, height : {1, 2, 3, 5}]

\* bytes the child writes to its stdout, in all
MaxBytes == 3

\* the bytes of the child's output: 'a', and the two bytes of U+00E9, a
\* lead byte of a two-byte sequence and a continuation byte
ByteValues == {97, 195, 169}

\* vec![0; 1024]: the most that one read delivers
OutBufLen == 1024

\* the one size of the terminal in the runs under fair selection
FairSizes == { [width |-> 6, height |-> 3] }

\* the sizes of the small-terminal scenario
TermSizesS5 == [width : {10}, height : {3, 9}]

NoFrame == [width |-> 0, height |-> 0]

\* command lines, arg0 removed: none, -h alone, a command, -h first of two,
\* a command with -h as its argument
ArgVectors == { <<>>, <<"-h">>, <<"cmd">>, <<"-h", "cmd">>, <<"cmd", "-h">> }

---------------------------------------------------------------------------
(* usize arithmetic *)

\* a >= b on usize
UGe(a, b) == IF (a < 0) = (b < 0) THEN a >= b ELSE a < 0

\* a - b, wrapping
WrappingSub(a, b) == a - b

\* a + b, wrapping
WrappingAdd(a, b) == a + b

\* a.saturating_sub(b)
SaturatingSub(a, b) == IF UGe(a, b) THEN a - b ELSE 0

\* a.saturating_add(b); the operands the model reaches are far below 2^63
SaturatingAdd(a, b) == a + b

\* (h as f32 / 3.0).floor() as usize
PageOf(h) == h \div 3

\* the page size when the terminal size cannot be queried
DefaultPage == 10

---------------------------------------------------------------------------
(* textwrap::wrap, as far as the number of lines it returns *)

RECURSIVE Concat(_)
Concat(chunks) ==
    IF chunks = <<>> THEN <<>> ELSE Head(chunks) \o Concat(Tail(chunks))

\* the words of a line: [w |-> letters, s |-> the spaces that follow them]
RECURSIVE WordsOf(_, _, _)
WordsOf(line, w, s) ==
    IF line = <<>> THEN (IF w + s > 0 THEN <<[w |-> w, s |-> s]>> ELSE <<>>)
    ELSE IF Head(line) = " " THEN WordsOf(Tail(line), w, s + 1)
    ELSE IF s > 0 THEN <<[w |-> w, s |-> s]>> \o WordsOf(Tail(line), 1, 0)
    ELSE WordsOf(Tail(line), w + 1, 0)

\* a word wider than the line is broken into pieces of the line's width
RECURSIVE BreakWords(_, _)
BreakWords(words, width) ==
    IF words = <<>> THEN <<>>
    ELSE LET x == Head(words) IN
         IF x.w > width
         THEN <<[w |-> width, s |-> 0]>>
              \o BreakWords(<<[w |-> x.w - width, s |-> x.s]>> \o Tail(words), width)
         ELSE <<x>> \o BreakWords(Tail(words), width)

\* first fit: the number of lines the words take
RECURSIVE FirstFit(_, _, _, _)
FirstFit(words, width, col, started) ==
    IF words = <<>> THEN 1
    ELSE LET x == Head(words) IN
         IF col + x.w > width /\ started
         THEN 1 + FirstFit(Tail(words), width, x.w + x.s, TRUE)
         ELSE FirstFit(Tail(words), width, col + x.w + x.s, TRUE)

\* the lines of one hard line; a width of 0 wraps as a width of 1
WrapLine(line, width) ==
    IF Len(line) < width THEN 1
    ELSE LET wd == IF width = 0 THEN 1 ELSE width
         IN  FirstFit(BreakWords(WordsOf(line, 0, 0), wd), wd, 0, FALSE)

\* text.split('\n'): the places where the lines start, and the line that
\* starts at a place
LineStarts(text) == {1} \cup {i + 1 : i \in {k \in DOMAIN text : text[k] = "\n"}}

RECURSIVE LineEnd(_, _)
LineEnd(text, k) ==
    IF k > Len(text) \/ text[k] = "\n" THEN k ELSE LineEnd(text, k + 1)

LineAt(text, start) == SubSeq(text, start, LineEnd(text, start) - 1)

\* the sum over the lines of WrapLine, as the sum over n >= 1 of the number
\* of lines that wrap to n lines or more
RECURSIVE SumFrom(_, _, _, _)
SumFrom(text, starts, width, n) ==
    LET more == {st \in starts : WrapLine(LineAt(text, st), width) >= n}
    IN  IF more = {} THEN 0
        ELSE Cardinality(more) + SumFrom(text, more, width, n + 1)

\* textwrap::wrap(&buf.concat(), width).len()
WrapLen(chunks, width) ==
    LET text == Concat(chunks)
    IN  SumFrom(text, LineStarts(text), width, 1)

---------------------------------------------------------------------------
(* String::from_utf8_lossy, on bytes that are ASCII, lead bytes of two-byte *)
(* sequences (0xC2..0xDF) or continuation bytes (0x80..0xBF): a lead byte   *)
(* and the continuation byte that follows it are one char, and every other *)
(* byte that is not ASCII is replaced by U+FFFD.                            *)

IsAscii(b) == b < 128
IsLead2(b) == b >= 194 /\ b <= 223
IsCont(b)  == b >= 128 /\ b <= 191

\* the char of a code point, as the text of the model holds it
CharOf(cp) ==
    CASE cp = 97    -> "a"
      [] cp = 233   -> "U+00E9"
      [] cp = 65533 -> "U+FFFD"
      [] OTHER      -> <<"U+", cp>>

RECURSIVE FromUtf8Lossy(_)
FromUtf8Lossy(bytes) ==
    IF bytes = <<>> THEN <<>>
    ELSE LET b == Head(bytes) IN
         IF IsAscii(b) THEN <<CharOf(b)>> \o FromUtf8Lossy(Tail(bytes))
         ELSE IF IsLead2(b) /\ Len(bytes) >= 2 /\ IsCont(bytes[2])
         THEN <<CharOf((b - 192) * 64 + (bytes[2] - 128))>>
              \o FromUtf8Lossy(Tail(Tail(bytes)))
         ELSE <<CharOf(65533)>> \o FromUtf8Lossy(Tail(bytes))

\* the byte sequences of a length
RECURSIVE ByteSeqs(_)
ByteSeqs(n) ==
    IF n = 0 THEN { <<>> }
    ELSE {Append(q, b) : q \in ByteSeqs(n - 1), b \in ByteValues}

---------------------------------------------------------------------------
(* The layout of a frame *)

\* layout[i].width as usize - 2: two panels of half the columns each
PanelWidth(sz) == WrappingSub(sz.width \div 2, 2)

\* layout[0].height as usize - 2
PanelHeight(sz) == WrappingSub(sz.height, 2)

\* the subtraction overflows: a panic under overflow checks
LayoutOverflows(sz) == sz.height < 2 \/ sz.width \div 2 < 2

---------------------------------------------------------------------------
(* The scroll controller *)

ScrollKeys == {"Up", "Down", "PageUp", "PageDown", "Home", "End"}

\* the results of a read that carry no bytes: Ok(0) and Err
ReadEnds == {"Ok0", "Err"}

\* ActiveWidget::switch
Switch(w) == IF w = "Stdout" THEN "Stderr" ELSE "Stdout"

\* a faulty scroll controller: Up moves the offset and leaves autoscroll as
\* it is
ScrollKeyUpKeepsAuto(key, offset, autoscroll, page) ==
    CASE key = "Up"       -> [offset |-> SaturatingSub(offset, 1), autoscroll |-> autoscroll]
      [] key = "Down"     -> [offset |-> SaturatingAdd(offset, 1), autoscroll |-> FALSE]
      [] key = "PageUp"   -> [offset |-> SaturatingSub(offset, page), autoscroll |-> FALSE]
      [] key = "PageDown" -> [offset |-> SaturatingAdd(offset, page), autoscroll |-> FALSE]
      [] key = "Home"     -> [offset |-> 0, autoscroll |-> FALSE]
      [] key = "End"      -> [offset |-> offset, autoscroll |-> TRUE]
      [] OTHER            -> [offset |-> offset, autoscroll |-> autoscroll]

\* a faulty scroll controller: PageUp moves by one line
ScrollKeyPageUpByLine(key, offset, autoscroll, page) ==
    CASE key = "Up"       -> [offset |-> SaturatingSub(offset, 1), autoscroll |-> FALSE]
      [] key = "Down"     -> [offset |-> SaturatingAdd(offset, 1), autoscroll |-> FALSE]
      [] key = "PageUp"   -> [offset |-> SaturatingSub(offset, 1), autoscroll |-> FALSE]
      [] key = "PageDown" -> [offset |-> SaturatingAdd(offset, page), autoscroll |-> FALSE]
      [] key = "Home"     -> [offset |-> 0, autoscroll |-> FALSE]
      [] key = "End"      -> [offset |-> offset, autoscroll |-> TRUE]
      [] OTHER            -> [offset |-> offset, autoscroll |-> autoscroll]

\* a faulty scroll controller: Home moves to the head and leaves autoscroll
\* as it is
ScrollKeyHomeKeepsAuto(key, offset, autoscroll, page) ==
    CASE key = "Up"       -> [offset |-> SaturatingSub(offset, 1), autoscroll |-> FALSE]
      [] key = "Down"     -> [offset |-> SaturatingAdd(offset, 1), autoscroll |-> FALSE]
      [] key = "PageUp"   -> [offset |-> SaturatingSub(offset, page), autoscroll |-> FALSE]
      [] key = "PageDown" -> [offset |-> SaturatingAdd(offset, page), autoscroll |-> FALSE]
      [] key = "Home"     -> [offset |-> 0, autoscroll |-> autoscroll]
      [] key = "End"      -> [offset |-> offset, autoscroll |-> TRUE]
      [] OTHER            -> [offset |-> offset, autoscroll |-> autoscroll]

\* one scroll key on one stream's (offset, autoscroll)
ScrollKey(key, offset, autoscroll, page) ==
    CASE key = "Up"       -> [offset |-> SaturatingSub(offset, 1), autoscroll |-> FALSE]
      [] key = "Down"     -> [offset |-> SaturatingAdd(offset, 1), autoscroll |-> FALSE]
      [] key = "PageUp"   -> [offset |-> SaturatingSub(offset, page), autoscroll |-> FALSE]
      [] key = "PageDown" -> [offset |-> SaturatingAdd(offset, page), autoscroll |-> FALSE]
      [] key = "Home"     -> [offset |-> 0, autoscroll |-> FALSE]
      [] key = "End"      -> [offset |-> offset, autoscroll |-> TRUE]
      [] OTHER            -> [offset |-> offset, autoscroll |-> autoscroll]

\* a faulty reconciliation: autoscroll is re-engaged at the bottom and the
\* offset is never moved
ReconcileKeepsOffset(offset, autoscroll, len, height) ==
    [offset     |-> offset,
     autoscroll |-> autoscroll \/ UGe(WrappingAdd(offset, height), len)]

\* a faulty reconciliation: autoscroll follows the head of the buffer
ReconcileToHead(offset, autoscroll, len, height) ==
    LET auto == autoscroll \/ UGe(WrappingAdd(offset, height), len)
    IN  [offset |-> IF auto THEN 0 ELSE offset, autoscroll |-> auto]

\* a faulty reconciliation: a frozen stream drifts up by a line in every
\* frame
ReconcileDrifts(offset, autoscroll, len, height) ==
    LET auto == autoscroll \/ UGe(WrappingAdd(offset, height), len)
    IN  [offset     |-> IF auto THEN SaturatingSub(len, height)
                                ELSE SaturatingSub(offset, 1),
         autoscroll |-> auto]

\* the reconciliation of one stream in a frame
Reconcile(offset, autoscroll, len, height) ==
    LET sticky == UGe(WrappingAdd(offset, height), len)
        auto   == autoscroll \/ sticky
    IN  [offset     |-> IF auto THEN SaturatingSub(len, height) ELSE offset,
         autoscroll |-> auto]

---------------------------------------------------------------------------
(* The program *)

Init ==
    /\ stdout_buf = <<>>
    /\ stderr_buf = <<>>
    /\ read_stdout = TRUE
    /\ read_stderr = TRUE
    /\ stdout_scroll_offset = 0
    /\ stderr_scroll_offset = 0
    /\ stdout_autoscroll = TRUE
    /\ stderr_autoscroll = TRUE
    /\ active_widget = "Stdout"
    /\ scroll_page = 0
    /\ pc = "top"
    /\ area = NoFrame
    /\ last_event = "none"
    /\ before = <<0, 0>>
    /\ args = <<>>
    /\ child = TRUE
    /\ raw_mode = TRUE
    /\ usage_printed = FALSE
    /\ exit = "none"
    /\ out_pipe = <<>>
    /\ out_sent = <<>>
    /\ esc_pending = FALSE

\* main is entered with the command line args (arg0 removed); nothing is
\* spawned, printed or initialised yet
InitMain ==
    /\ stdout_buf = <<>>
    /\ stderr_buf = <<>>
    /\ read_stdout = TRUE
    /\ read_stderr = TRUE
    /\ stdout_scroll_offset = 0
    /\ stderr_scroll_offset = 0
    /\ stdout_autoscroll = TRUE
    /\ stderr_autoscroll = TRUE
    /\ active_widget = "Stdout"
    /\ scroll_page = 0
    /\ pc = "start"
    /\ area = NoFrame
    /\ last_event = "none"
    /\ before = <<0, 0>>
    /\ args \in ArgVectors
    /\ child = FALSE
    /\ raw_mode = FALSE
    /\ usage_printed = FALSE
    /\ exit = "none"
    /\ out_pipe = <<>>
    /\ out_sent = <<>>
    /\ esc_pending = FALSE

\* args.is_empty() || (args.len() == 1 && args[0] == "-h")
WantsUsage(a) == a = <<>> \/ (Len(a) = 1 /\ a[1] = "-h")

\* print_usage(&arg0); return Ok(())
Usage ==
    /\ pc = "start"
    /\ WantsUsage(args)
    /\ usage_printed' = TRUE
    /\ exit' = "Ok"
    /\ pc' = "usage"
    /\ UNCHANGED <<bufs, flags, scrolls, active_widget, scroll_page, area,
                   last_event, before, args, child, raw_mode, inputs>>

\* a faulty startup: the terminal is initialised before the spawn, whose
\* failure returns at once
SpawnFailsAfterInit ==
    /\ pc = "start"
    /\ ~WantsUsage(args)
    /\ args' = <<>>
    /\ raw_mode' = TRUE
    /\ exit' = "Err"
    /\ pc' = "failed"
    /\ UNCHANGED <<bufs, flags, scrolls, active_widget, scroll_page, area,
                   last_event, before, child, usage_printed, inputs>>

\* Command::new(cmd)...spawn() returns Err: context("Failed to start
\* process")?, main returns the error
SpawnFails ==
    /\ pc = "start"
    /\ ~WantsUsage(args)
    /\ args' = <<>>
    /\ exit' = "Err"
    /\ pc' = "failed"
    /\ UNCHANGED <<bufs, flags, scrolls, active_widget, scroll_page, area,
                   last_event, before, child, raw_mode, usage_printed, inputs>>

\* spawn() returns the child, its stdout and stderr piped; ratatui::init();
\* the locals of the loop are initialised
Startup ==
    /\ pc = "start"
    /\ ~WantsUsage(args)
    /\ args' = <<>>
    /\ child' = TRUE
    /\ raw_mode' = TRUE
    /\ pc' = "top"
    /\ UNCHANGED <<bufs, flags, scrolls, active_widget, scroll_page, area,
                   last_event, before, usage_printed, exit, inputs>>

\* the top of the loop: the page size from the size the terminal has at
\* that instant, or the default when the size cannot be queried
LoopTop(sizes) ==
    /\ pc = "top"
    /\ \/ \E sz \in sizes : scroll_page' = PageOf(sz.height)
       \/ scroll_page' = DefaultPage
    /\ pc' = "select"
    /\ UNCHANGED <<bufs, flags, scrolls, active_widget, area, last_event, before, proc, inputs>>

Handled(ev) ==
    /\ pc' = "draw"
    /\ last_event' = ev
    /\ before' = <<stdout_scroll_offset, stderr_scroll_offset>>

\* a faulty select: stdout is read whether it has ended or not
ReadStdoutDataUnguarded(chunks) ==
    /\ pc = "select"
    /\ Len(stdout_buf) + Len(stderr_buf) < MaxChunks
    /\ \E c \in chunks : stdout_buf' = Append(stdout_buf, c)
    /\ Handled("OutData")
    /\ UNCHANGED <<stderr_buf, flags, scrolls, active_widget, scroll_page, area, proc, inputs>>

\* child_stdout.read: Ok(bytes), bytes > 0
ReadStdoutData(chunks) ==
    /\ pc = "select"
    /\ read_stdout
    /\ Len(stdout_buf) + Len(stderr_buf) < MaxChunks
    /\ \E c \in chunks : stdout_buf' = Append(stdout_buf, c)
    /\ Handled("OutData")
    /\ UNCHANGED <<stderr_buf, flags, scrolls, active_widget, scroll_page, area, proc, inputs>>

\* a faulty end of stdout: the stored chunks are dropped
ReadStdoutCloseClears ==
    /\ pc = "select"
    /\ read_stdout
    /\ read_stdout' = FALSE
    /\ stdout_buf' = <<>>
    /\ Handled("OutClose")
    /\ UNCHANGED <<stderr_buf, read_stderr, scrolls, active_widget, scroll_page, area, proc, inputs>>

\* a faulty read: an error leaves stdout to be read again
ReadStdoutEndRetries(res) ==
    /\ pc = "select"
    /\ read_stdout
    /\ CASE res = "Ok0" -> read_stdout' = FALSE
         [] OTHER       -> read_stdout' = TRUE
    /\ Handled("OutClose")
    /\ UNCHANGED <<bufs, read_stderr, scrolls, active_widget, scroll_page, area, proc, inputs>>

\* child_stdout.read returns res, one of the two that carry no bytes: the
\* arm Ok(0), or the arm _ for an Err
ReadStdoutEnd(res) ==
    /\ pc = "select"
    /\ read_stdout
    /\ CASE res = "Ok0" -> read_stdout' = FALSE
         [] OTHER       -> read_stdout' = FALSE
    /\ Handled("OutClose")
    /\ UNCHANGED <<bufs, read_stderr, scrolls, active_widget, scroll_page, area, proc, inputs>>

\* child_stdout.read: Ok(0) or Err
ReadStdoutClose == \E res \in ReadEnds : ReadStdoutEnd(res)

\* child_stderr.read: Ok(bytes), bytes > 0
ReadStderrData(chunks) ==
    /\ pc = "select"
    /\ read_stderr
    /\ Len(stdout_buf) + Len(stderr_buf) < MaxChunks
    /\ \E c \in chunks : stderr_buf' = Append(stderr_buf, c)
    /\ Handled("ErrData")
    /\ UNCHANGED <<stdout_buf, flags, scrolls, active_widget, scroll_page, area, proc, inputs>>

\* a faulty end of stderr: reading of stdout is armed again
ReadStderrCloseRearms ==
    /\ pc = "select"
    /\ read_stderr
    /\ read_stderr' = FALSE
    /\ read_stdout' = TRUE
    /\ Handled("ErrClose")
    /\ UNCHANGED <<bufs, scrolls, active_widget, scroll_page, area, proc, inputs>>

\* a faulty end of stderr: the loop is left when stdout has ended too
ReadStderrCloseExits ==
    /\ pc = "select"
    /\ read_stderr
    /\ read_stderr' = FALSE
    /\ last_event' = "ErrClose"
    /\ before' = <<stdout_scroll_offset, stderr_scroll_offset>>
    /\ pc' = IF read_stdout THEN "draw" ELSE "done"
    /\ UNCHANGED <<bufs, read_stdout, scrolls, active_widget, scroll_page, area, proc, inputs>>

\* child_stderr.read returns res: the arm Ok(0), or the arm _ for an Err
ReadStderrEnd(res) ==
    /\ pc = "select"
    /\ read_stderr
    /\ CASE res = "Ok0" -> read_stderr' = FALSE
         [] OTHER       -> read_stderr' = FALSE
    /\ Handled("ErrClose")
    /\ UNCHANGED <<bufs, read_stdout, scrolls, active_widget, scroll_page, area, proc, inputs>>

\* child_stderr.read: Ok(0) or Err
ReadStderrClose == \E res \in ReadEnds : ReadStderrEnd(res)

\* a faulty key handler: Escape is taken as an input bound to nothing
KeyEscIgnored ==
    /\ pc = "select"
    /\ Handled("Ignored")
    /\ UNCHANGED <<bufs, flags, scrolls, active_widget, scroll_page, area, proc, inputs>>

\* events.next(): Some(Ok(Event::Key(Esc))): break, ratatui::restore(),
\* return Ok(())
KeyEsc ==
    /\ pc = "select"
    /\ pc' = "done"
    /\ raw_mode' = FALSE
    /\ exit' = "Ok"
    /\ scroll_page' = 0
    /\ last_event' = "Esc"
    /\ UNCHANGED <<bufs, flags, scrolls, active_widget, area, before, args, child, usage_printed, inputs>>

\* events.next(): Some(Ok(Event::Key(Tab)))
KeyTab ==
    /\ pc = "select"
    /\ active_widget' = Switch(active_widget)
    /\ Handled("Tab")
    /\ UNCHANGED <<bufs, flags, scrolls, scroll_page, area, proc, inputs>>

\* a faulty key handler: a scroll key acts on both streams
KeyScrollBoth ==
    /\ pc = "select"
    /\ \E key \in ScrollKeys :
        /\ Handled(key)
        /\ LET o == ScrollKey(key, stdout_scroll_offset, stdout_autoscroll, scroll_page)
               e == ScrollKey(key, stderr_scroll_offset, stderr_autoscroll, scroll_page)
           IN  /\ stdout_scroll_offset' = o.offset
               /\ stdout_autoscroll' = o.autoscroll
               /\ stderr_scroll_offset' = e.offset
               /\ stderr_autoscroll' = e.autoscroll
    /\ UNCHANGED <<bufs, flags, active_widget, scroll_page, area, proc, inputs>>

\* events.next(): a scroll key, on the focused stream
KeyScroll ==
    /\ pc = "select"
    /\ \E key \in ScrollKeys :
        /\ Handled(key)
        /\ IF active_widget = "Stdout"
           THEN LET r == ScrollKey(key, stdout_scroll_offset, stdout_autoscroll, scroll_page)
                IN  /\ stdout_scroll_offset' = r.offset
                    /\ stdout_autoscroll' = r.autoscroll
                    /\ UNCHANGED <<stderr_scroll_offset, stderr_autoscroll>>
           ELSE LET r == ScrollKey(key, stderr_scroll_offset, stderr_autoscroll, scroll_page)
                IN  /\ stderr_scroll_offset' = r.offset
                    /\ stderr_autoscroll' = r.autoscroll
                    /\ UNCHANGED <<stdout_scroll_offset, stdout_autoscroll>>
    /\ UNCHANGED <<bufs, flags, active_widget, scroll_page, area, proc, inputs>>

\* a faulty loop: an input that is ignored skips the frame
OtherInputNoFrame ==
    /\ pc = "select"
    /\ pc' = "top"
    /\ scroll_page' = 0
    /\ UNCHANGED <<bufs, flags, scrolls, active_widget, area, last_event, before, proc, inputs>>

\* events.next(): any other key, an event that is no key, an error, or None
OtherInput ==
    /\ pc = "select"
    /\ Handled("Ignored")
    /\ UNCHANGED <<bufs, flags, scrolls, active_widget, scroll_page, area, proc, inputs>>

\* the closure of terminal.draw on a frame of size sz, where the buffers
\* wrap to olen and elen lines
DrawFrame(sz, olen, elen) ==
    LET h == PanelHeight(sz)
        o == Reconcile(stdout_scroll_offset, stdout_autoscroll, olen, h)
        e == Reconcile(stderr_scroll_offset, stderr_autoscroll, elen, h)
    IN  /\ stdout_scroll_offset' = o.offset
        /\ stdout_autoscroll' = o.autoscroll
        /\ stderr_scroll_offset' = e.offset
        /\ stderr_autoscroll' = e.autoscroll
        /\ area' = sz

\* terminal.draw returns Ok, on the size the terminal has at that instant;
\* where the layout arithmetic overflows, this is the build without overflow
\* checks, which wraps
DrawOk(sizes) ==
    /\ pc = "draw"
    /\ \E w \in {PanelWidth(sz) : sz \in sizes} :
         LET olen == WrapLen(stdout_buf, w)
             elen == WrapLen(stderr_buf, w)
         IN  \E sz \in sizes : PanelWidth(sz) = w /\ DrawFrame(sz, olen, elen)
    /\ pc' = "top"
    /\ scroll_page' = 0
    /\ last_event' = "none"
    /\ before' = <<0, 0>>
    /\ UNCHANGED <<bufs, flags, active_widget, proc, inputs>>

\* the layout arithmetic overflows in a build with overflow checks: the
\* closure panics, and the panic hook that ratatui::init installed restores
\* the terminal
DrawPanic(sizes) ==
    /\ pc = "draw"
    /\ \E sz \in sizes : LayoutOverflows(sz)
    /\ pc' = "panic"
    /\ raw_mode' = FALSE
    /\ exit' = "panic"
    /\ scroll_page' = 0
    /\ last_event' = "none"
    /\ before' = <<0, 0>>
    /\ UNCHANGED <<bufs, flags, scrolls, active_widget, area, args, child, usage_printed, inputs>>

\* a faulty exit: a failed draw returns without ratatui::restore()
DrawErrKeepsRaw ==
    /\ pc = "draw"
    /\ pc' = "done"
    /\ exit' = "Ok"
    /\ scroll_page' = 0
    /\ last_event' = "none"
    /\ before' = <<0, 0>>
    /\ UNCHANGED <<bufs, flags, scrolls, active_widget, area, args, child,
                   raw_mode, usage_printed, inputs>>

\* terminal.draw returns Err: break, ratatui::restore(), return Ok(()).
\* Whether the closure ran or not, no code reads the scroll state again.
DrawErr ==
    /\ pc = "draw"
    /\ pc' = "done"
    /\ raw_mode' = FALSE
    /\ exit' = "Ok"
    /\ scroll_page' = 0
    /\ last_event' = "none"
    /\ before' = <<0, 0>>
    /\ UNCHANGED <<bufs, flags, scrolls, active_widget, area, args, child, usage_printed, inputs>>

Next ==
    \/ LoopTop(TermSizes)
    \/ ReadStdoutData(Chunks)
    \/ ReadStdoutClose
    \/ ReadStderrData(Chunks)
    \/ ReadStderrClose
    \/ KeyEsc
    \/ KeyTab
    \/ KeyScroll
    \/ OtherInput
    \/ DrawOk(TermSizes)
    \/ DrawPanic(TermSizes)
    \/ DrawErr

Spec == Init /\ [][Next]_vars

\* the whole of main, from its entry
NextMain ==
    \/ Usage
    \/ SpawnFails
    \/ Startup
    \/ Next

SpecMain == InitMain /\ [][NextMain]_vars

---------------------------------------------------------------------------
(* The loop under fair selection.  The Escape key is followed from the     *)
(* press: once pressed it is the event that events.next() yields.  select! *)
(* polls its ready branches in a random order, so a branch that is ready   *)
(* again and again is taken in the end: strong fairness of each source.    *)
(* The loop itself runs on: weak fairness of its top and of the draw.      *)

\* the user presses Escape
PressEsc ==
    /\ pc \in {"top", "select", "draw"}
    /\ ~esc_pending
    /\ esc_pending' = TRUE
    /\ UNCHANGED <<bufs, flags, scrolls, active_widget, scroll_page, pc, area,
                   last_event, before, proc, out_pipe, out_sent>>

\* events.next() yields the Escape that waits
EscTaken == esc_pending /\ KeyEsc

\* events.next() yields another input, no Escape waiting
TabTaken    == ~esc_pending /\ KeyTab
ScrollTaken == ~esc_pending /\ KeyScroll
OtherTaken  == ~esc_pending /\ OtherInput

NextFair ==
    \/ LoopTop(FairSizes)
    \/ ReadStdoutData(Chunks)
    \/ ReadStdoutClose
    \/ ReadStderrData(Chunks)
    \/ ReadStderrClose
    \/ PressEsc
    \/ EscTaken
    \/ TabTaken
    \/ ScrollTaken
    \/ OtherTaken
    \/ DrawOk(FairSizes)

\* WF_vars(DrawOk(FairSizes)) with its ENABLED written out: on these sizes
\* the draw is enabled exactly where pc = "draw"
DrawReturns == []<>(pc # "draw") \/ []<><<DrawOk(FairSizes)>>_vars

SpecFair ==
    /\ Init
    /\ [][NextFair]_vars
    /\ WF_vars(LoopTop(FairSizes))
    /\ DrawReturns
    /\ SF_vars(EscTaken)
    /\ SF_vars(ReadStdoutData(Chunks))
    /\ SF_vars(ReadStderrData(Chunks))

---------------------------------------------------------------------------
(* The loop on the bytes of the child's stdout.  The child has written a    *)
(* byte sequence and closed its stdout; each read takes as many of the      *)
(* waiting bytes as the operating system hands over, at least one and at    *)
(* most the buffer's length.                                                *)

InitLossy ==
    /\ stdout_buf = <<>>
    /\ stderr_buf = <<>>
    /\ read_stdout = TRUE
    /\ read_stderr = TRUE
    /\ stdout_scroll_offset = 0
    /\ stderr_scroll_offset = 0
    /\ stdout_autoscroll = TRUE
    /\ stderr_autoscroll = TRUE
    /\ active_widget = "Stdout"
    /\ scroll_page = 0
    /\ pc = "top"
    /\ area = NoFrame
    /\ last_event = "none"
    /\ before = <<0, 0>>
    /\ args = <<>>
    /\ child = TRUE
    /\ raw_mode = TRUE
    /\ usage_printed = FALSE
    /\ exit = "none"
    /\ out_pipe \in UNION {ByteSeqs(n) : n \in 1..MaxBytes}
    /\ out_sent = out_pipe
    /\ esc_pending = FALSE

\* child_stdout.read: Ok(bytes) with the first bytes > 0 of those waiting;
\* the chunk is String::from_utf8_lossy(&out_buf[..bytes])
ReadStdoutBytes ==
    /\ pc = "select"
    /\ read_stdout
    /\ \E bytes \in 1..Len(out_pipe) :
        /\ bytes <= OutBufLen
        /\ stdout_buf' = Append(stdout_buf, FromUtf8Lossy(SubSeq(out_pipe, 1, bytes)))
        /\ out_pipe' = SubSeq(out_pipe, bytes + 1, Len(out_pipe))
    /\ Handled("OutData")
    /\ UNCHANGED <<stderr_buf, flags, scrolls, active_widget, scroll_page, area,
                   proc, out_sent, esc_pending>>

\* child_stdout.read: Ok(0), all the bytes read
ReadStdoutDrained == out_pipe = <<>> /\ ReadStdoutEnd("Ok0")

NextLossy ==
    \/ LoopTop(FairSizes)
    \/ ReadStdoutBytes
    \/ ReadStdoutDrained
    \/ DrawOk(FairSizes)

SpecLossy == InitLossy /\ [][NextLossy]_vars

---------------------------------------------------------------------------
(* The long-output scenario: the child writes reads of 65540 newlines to   *)
(* its stdout and the user presses no scroll key, so that autoscroll       *)
(* carries the offset of stdout past 65535.                                *)

NextLong ==
    \/ LoopTop(FairSizes)
    \/ ReadStdoutData({HugeChunk})
    \/ ReadStdoutClose
    \/ ReadStderrClose
    \/ KeyEsc
    \/ KeyTab
    \/ OtherInput
    \/ DrawOk(FairSizes)
    \/ DrawErr

SpecLong == Init /\ [][NextLong]_vars

---------------------------------------------------------------------------
\* the small-terminal scenario: the same program on a terminal of 3 or 9
\* rows whose child writes 49 newlines at a time to its stdout and nothing
\* to its stderr
NextS5 ==
    \/ LoopTop(TermSizesS5)
    \/ ReadStdoutData({BigChunk})
    \/ ReadStdoutClose
    \/ ReadStderrClose
    \/ KeyEsc
    \/ KeyTab
    \/ KeyScroll
    \/ OtherInput
    \/ DrawOk(TermSizesS5)
    \/ DrawErr

SpecS5 == Init /\ [][NextS5]_vars

---------------------------------------------------------------------------
(* What a frame shows.  The height h is the usize the closure computes; as a *)
(* number, a negative h of the two's-complement view is 2^64 + h.            *)

\* a frame has just been drawn: area is its size, the buffers are its text
FrameEnd == pc = "top" /\ area # NoFrame

\* the step that draws a frame
FrameStep == pc = "draw" /\ pc' = "top"

OutLen(sz) == WrapLen(stdout_buf, PanelWidth(sz))
ErrLen(sz) == WrapLen(stderr_buf, PanelWidth(sz))

\* max(0, len - h)
MaxOffset(len, h) == IF h < 0 \/ h >= len THEN 0 ELSE len - h

\* offset + h >= len
ReachesEnd(offset, h, len) == h < 0 \/ offset + h >= len

\* line lies in the window [offset, offset + h)
Visible(line, offset, h) == offset <= line /\ (h < 0 \/ line < offset + h)

---------------------------------------------------------------------------
\* C1: at the end of every drawn frame, for each stream,
\* 0 <= offset <= max(0, |wrapped| - H) for that frame's |wrapped| and H.
C1_OffsetBounds ==
    FrameEnd =>
        /\ 0 <= stdout_scroll_offset
        /\ stdout_scroll_offset <= MaxOffset(OutLen(area), PanelHeight(area))
        /\ 0 <= stderr_scroll_offset
        /\ stderr_scroll_offset <= MaxOffset(ErrLen(area), PanelHeight(area))

\* C2: at the end of every drawn frame, for each stream, autoscroll implies
\* offset = max(0, |wrapped| - H) for that frame's |wrapped| and H.
C2_AutoscrollAtBottom ==
    FrameEnd =>
        /\ stdout_autoscroll =>
             stdout_scroll_offset = MaxOffset(OutLen(area), PanelHeight(area))
        /\ stderr_autoscroll =>
             stderr_scroll_offset = MaxOffset(ErrLen(area), PanelHeight(area))

\* a frame ended with a stream in autoscroll, its text taller than the panel
C2_Witness ==
    /\ FrameEnd
    /\ stdout_autoscroll /\ stdout_scroll_offset >= 2
    /\ stderr_autoscroll /\ stderr_scroll_offset >= 1

\* C3: if after the event handling of an iteration offset + H >= |wrapped|,
\* for the H and |wrapped| of the frame about to be drawn, the frame ends
\* with autoscroll = true.
C3_StickyBottom ==
    [][FrameStep =>
        /\ ReachesEnd(stdout_scroll_offset, PanelHeight(area'), OutLen(area'))
             => stdout_autoscroll'
        /\ ReachesEnd(stderr_scroll_offset, PanelHeight(area'), ErrLen(area'))
             => stderr_autoscroll']_vars

---------------------------------------------------------------------------
\* the step that handles a key of the set keys
KeyStep(keys) == pc = "select" /\ last_event' \in keys

\* the frame of an iteration that handled the key on a focused stdout, stderr
OutFrame(key) == FrameStep /\ last_event = key /\ active_widget = "Stdout"
ErrFrame(key) == FrameStep /\ last_event = key /\ active_widget = "Stderr"

C6_PageUpFrom49 ==
    [][/\ OutFrame("PageUp") /\ scroll_page = 3 /\ area'.height = 9
            /\ OutLen(area') = 50 /\ before[1] = 49
            => stdout_scroll_offset' = 46 /\ ~stdout_autoscroll'
       /\ ErrFrame("PageUp") /\ scroll_page = 3 /\ area'.height = 9
            /\ ErrLen(area') = 50 /\ before[2] = 49
            => stderr_scroll_offset' = 46 /\ ~stderr_autoscroll']_vars

\* C6, amended: on a terminal of height 9 (P = 3, H = 7) a panel of 50
\* wrapped lines is displayed at an offset of at most 43; PageUp on the
\* focused panel displayed at offset 43 results in offset 40, autoscroll
\* false.
C6_PageUpFrom43 ==
    [][/\ FrameStep /\ area'.height = 9 /\ OutLen(area') = 50
            => stdout_scroll_offset' <= 43
       /\ FrameStep /\ area'.height = 9 /\ ErrLen(area') = 50
            => stderr_scroll_offset' <= 43
       /\ OutFrame("PageUp") /\ scroll_page = 3 /\ area.height = 9 /\ area'.height = 9
            /\ OutLen(area') = 50 /\ before[1] = 43
            => stdout_scroll_offset' = 40 /\ ~stdout_autoscroll'
       /\ ErrFrame("PageUp") /\ scroll_page = 3 /\ area.height = 9 /\ area'.height = 9
            /\ ErrLen(area') = 50 /\ before[2] = 43
            => stderr_scroll_offset' = 40 /\ ~stderr_autoscroll']_vars

\* PageUp was pressed with P = 3 on a focused stdout of 50 lines displayed
\* at offset 43 on 9 rows
C6_Witness ==
    /\ pc = "draw" /\ last_event = "PageUp" /\ active_widget = "Stdout"
    /\ scroll_page = 3 /\ area.height = 9
    /\ OutLen(area) = 50
    /\ before[1] = 43 /\ stdout_scroll_offset = 40

\* C7, as claimed, on the terminals of at least 3 rows: a scroll key changes
\* the offset and autoscroll of the focused stream only; those of the other
\* stream are the same after the key's frame as before the key.
C7_OtherStreamKept ==
    [][/\ KeyStep(ScrollKeys) /\ active_widget = "Stdout"
            => UNCHANGED <<stderr_scroll_offset, stderr_autoscroll>>
       /\ KeyStep(ScrollKeys) /\ active_widget = "Stderr"
            => UNCHANGED <<stdout_scroll_offset, stdout_autoscroll>>
       /\ FrameStep /\ last_event \in ScrollKeys /\ active_widget = "Stdout"
            /\ area.height >= 3 /\ area'.height >= 3
            => UNCHANGED <<stderr_scroll_offset, stderr_autoscroll>>
       /\ FrameStep /\ last_event \in ScrollKeys /\ active_widget = "Stderr"
            /\ area.height >= 3 /\ area'.height >= 3
            => UNCHANGED <<stdout_scroll_offset, stdout_autoscroll>>]_vars

\* C7, amended: the key handler changes the focused stream only, Tab moves
\* the focus and no scroll state, and the other stream's offset and
\* autoscroll are the same after the key's frame as before the key when a
\* frame was drawn before and the terminal has kept its size.
C7_FocusExclusive ==
    [][/\ KeyStep(ScrollKeys) /\ active_widget = "Stdout"
            => UNCHANGED <<stderr_scroll_offset, stderr_autoscroll>>
       /\ KeyStep(ScrollKeys) /\ active_widget = "Stderr"
            => UNCHANGED <<stdout_scroll_offset, stdout_autoscroll>>
       /\ KeyStep({"Tab"})
            => active_widget' # active_widget /\ UNCHANGED scrolls
       /\ FrameStep /\ last_event \in ScrollKeys /\ active_widget = "Stdout"
            /\ area' = area
            => UNCHANGED <<stderr_scroll_offset, stderr_autoscroll>>
       /\ FrameStep /\ last_event \in ScrollKeys /\ active_widget = "Stderr"
            /\ area' = area
            => UNCHANGED <<stdout_scroll_offset, stdout_autoscroll>>]_vars

\* after Tab, Down has scrolled stderr while stdout stays frozen above its
\* bottom
C7_Witness ==
    /\ pc = "draw" /\ last_event = "Down" /\ active_widget = "Stderr"
    /\ area # NoFrame
    /\ stderr_scroll_offset = before[2] + 1
    /\ ~stderr_autoscroll
    /\ ~stdout_autoscroll /\ stdout_scroll_offset = before[1]

\* C8: each stream's open flag starts true, and once false no event sets it
\* back to true.
C8_EofLatch ==
    /\ read_stdout = TRUE /\ read_stderr = TRUE
    /\ [][/\ ~read_stdout => ~read_stdout'
          /\ ~read_stderr => ~read_stderr']_vars

\* both streams are closed and the loop has gone on to handle a key
C8_Witness ==
    /\ ~read_stdout /\ ~read_stderr
    /\ pc = "draw" /\ last_event = "Tab"

IsPrefix(s, t) == Len(s) <= Len(t) /\ SubSeq(t, 1, Len(s)) = s

\* C9: every step leaves each stream's chunks, and their concatenation, a
\* prefix of what they are after the step.
C9_AppendOnly ==
    [][/\ IsPrefix(stdout_buf, stdout_buf')
       /\ IsPrefix(Concat(stdout_buf), Concat(stdout_buf'))
       /\ IsPrefix(stderr_buf, stderr_buf')
       /\ IsPrefix(Concat(stderr_buf), Concat(stderr_buf'))]_vars

\* a stream holds two chunks, closed after the second
C9_Witness ==
    /\ Len(stdout_buf) = 2
    /\ ~read_stdout
    /\ pc = "top"

\* C10: the loop is left only by the Escape key or by a draw that fails,
\* never by a read; with both streams closed the loop still takes input.
C10_ExitOnlyEscOrDraw ==
    [][/\ pc' \in {"done", "panic"} /\ pc \notin {"done", "panic"}
            => \/ pc = "select" /\ last_event' = "Esc"
               \/ pc = "draw"
       /\ pc' = "panic" /\ pc # "panic" => pc = "draw"
       /\ last_event' \in {"OutData", "OutClose", "ErrData", "ErrClose"}
            => pc' = "draw"
       /\ ~read_stdout /\ ~read_stderr /\ pc = "select"
            => ENABLED KeyScroll /\ ENABLED KeyTab /\ ENABLED KeyEsc]_vars

\* with both streams closed a scroll key was handled and its frame drawn
C10_Witness ==
    /\ ~read_stdout /\ ~read_stderr
    /\ pc = "top"
    /\ ~stdout_autoscroll

---------------------------------------------------------------------------
\* main has ended: by a return or by a panic
Terminated == pc \in {"usage", "failed", "done", "panic"}

\* C11: the terminal is in raw mode all through the event loop, every step
\* that leaves the loop (Escape, a failed draw) restores it, and no state in
\* which main has ended has the terminal in raw mode.
C11_RestoredOnExit ==
    /\ pc \in {"top", "select", "draw"} => raw_mode
    /\ Terminated => ~raw_mode /\ exit # "none"

\* the loop was left by a failed draw after a frame had been drawn
C11_Witness ==
    /\ pc = "done" /\ last_event = "none"
    /\ area # NoFrame
    /\ child /\ ~raw_mode /\ exit = "Ok"

\* C12: with no argument or the single argument -h, main prints the usage,
\* spawns nothing, never enters raw mode and returns Ok; a failed spawn
\* returns Err with the terminal never in raw mode; the terminal enters raw
\* mode only with the arguments accepted and the child spawned.
C12_InitAfterSpawn ==
    [][/\ pc = "start" /\ args \in {<<>>, <<"-h">>}
            => /\ pc' = "usage" /\ usage_printed' /\ exit' = "Ok"
               /\ ~child' /\ ~raw_mode'
       /\ pc = "start" /\ args \notin {<<>>, <<"-h">>}
            => ~usage_printed' /\ pc' \in {"failed", "top"}
       /\ pc' = "failed"
            => pc = "start" /\ ~raw_mode /\ ~raw_mode' /\ ~child' /\ exit' = "Err"
       /\ raw_mode' /\ ~raw_mode
            => pc = "start" /\ args \notin {<<>>, <<"-h">>} /\ child']_vars

\* main has returned after the usage, given -h alone
C12_Witness ==
    /\ pc = "usage" /\ args = <<"-h">>
    /\ usage_printed /\ exit = "Ok"
    /\ ~child /\ ~raw_mode

\* C13: a read error on a stream is, step for step, an end of that stream:
\* the stream's flag becomes false, the loop goes on to draw, and the
\* chunks, offsets and autoscroll of both streams and the other stream's
\* flag are left as they were.
C13_ErrorIsEof ==
    [][/\ ReadStdoutEnd("Err") <=> ReadStdoutEnd("Ok0")
       /\ ReadStderrEnd("Err") <=> ReadStderrEnd("Ok0")
       /\ ReadStdoutEnd("Err")
            => /\ ~read_stdout' /\ pc' = "draw"
               /\ UNCHANGED <<bufs, scrolls, read_stderr, active_widget, proc>>
       /\ ReadStderrEnd("Err")
            => /\ ~read_stderr' /\ pc' = "draw"
               /\ UNCHANGED <<bufs, scrolls, read_stdout, active_widget, proc>>]_vars

\* stdout has ended after a chunk, frozen above its bottom, while stderr is
\* still read
C13_Witness ==
    /\ pc = "draw" /\ last_event = "OutClose"
    /\ ~read_stdout /\ read_stderr
    /\ Len(stdout_buf) >= 1
    /\ ~stdout_autoscroll /\ stdout_scroll_offset >= 1

\* C14, as claimed: every handled event, a key included, is followed by one
\* frame draw before the next event is taken, and no frame is drawn without
\* an event handled in the same iteration.
C14_FrameAfterEveryEvent ==
    [][/\ pc = "select" => pc' = "draw" /\ last_event' # "none"
       /\ pc = "draw" => pc' # "select" /\ UNCHANGED <<bufs, flags, active_widget>>
       /\ FrameStep => last_event # "none"
       /\ pc = "top" => pc' = "select" /\ UNCHANGED <<bufs, flags, scrolls, area>>]_vars

\* C14, amended: every handled event other than the Escape key is followed
\* by one draw of a frame before the next event is taken, the Escape key
\* leaves the loop with no frame, and no frame is drawn without an event
\* handled in the same iteration.
C14_OneFramePerIteration ==
    [][/\ pc = "select"
            => /\ last_event = "none" /\ last_event' # "none"
               /\ IF last_event' = "Esc" THEN pc' = "done" /\ UNCHANGED area
                                         ELSE pc' = "draw" /\ UNCHANGED area
       /\ pc = "draw"
            => /\ pc' \in {"top", "done", "panic"}
               /\ UNCHANGED <<bufs, flags, active_widget>>
       /\ FrameStep => last_event # "none" /\ last_event' = "none"
       /\ pc = "top" => pc' = "select" /\ UNCHANGED <<bufs, flags, scrolls, area>>]_vars

\* the frame of a chunk read from stderr has been drawn, the second frame
\* of the run
C14_Witness ==
    /\ pc = "top" /\ last_event = "none"
    /\ area # NoFrame
    /\ Len(stderr_buf) = 1 /\ stderr_scroll_offset >= 1
    /\ ~stdout_autoscroll

\* the command table of the scroll keys, on an offset and a page size P
TableOffset(key, offset, P) ==
    CASE key = "Up"       -> IF offset - 1 < 0 THEN 0 ELSE offset - 1
      [] key = "Down"     -> offset + 1
      [] key = "PageUp"   -> IF offset - P < 0 THEN 0 ELSE offset - P
      [] key = "PageDown" -> offset + P
      [] key = "Home"     -> 0
      [] key = "End"      -> offset

\* C15: the key handler leaves the focused stream with the offset of the
\* command table and with autoscroll true for End, false for the five other
\* keys, before any reconciliation; P is floor(terminal height / 3) for a
\* height the terminal has at the top of the iteration, or 10.
C15_KeyTable ==
    [][/\ KeyStep(ScrollKeys) /\ active_widget = "Stdout"
            => /\ stdout_scroll_offset' =
                     TableOffset(last_event', stdout_scroll_offset, scroll_page)
               /\ stdout_autoscroll' = (last_event' = "End")
       /\ KeyStep(ScrollKeys) /\ active_widget = "Stderr"
            => /\ stderr_scroll_offset' =
                     TableOffset(last_event', stderr_scroll_offset, scroll_page)
               /\ stderr_autoscroll' = (last_event' = "End")
       /\ KeyStep(ScrollKeys) => UNCHANGED scroll_page
       /\ pc = "top" /\ pc' = "select"
            => \/ scroll_page' = 10
               \/ \E sz \in TermSizes :
                     /\ 3 * scroll_page' <= sz.height
                     /\ sz.height < 3 * (scroll_page' + 1)]_vars

\* PageDown with the page size 10 of a terminal whose size is not known has
\* moved the focused stderr ten lines down from an offset above the bottom
C15_Witness ==
    /\ pc = "draw" /\ last_event = "PageDown" /\ active_widget = "Stderr"
    /\ scroll_page = 10
    /\ before[2] >= 1
    /\ stderr_scroll_offset = before[2] + 10
    /\ ~stderr_autoscroll

\* C16: an input that is bound to nothing leaves the loop running and the
\* focus, flags, chunks, offsets and autoscroll untouched, and where the
\* terminal has the size of the previous frame, the frame that follows
\* leaves all of them as the previous frame left them.
C16_UnboundNoOp ==
    [][/\ KeyStep({"Ignored"})
            => pc' = "draw" /\ UNCHANGED <<bufs, flags, scrolls, active_widget>>
       /\ FrameStep /\ last_event = "Ignored" /\ area # NoFrame /\ area' = area
            => UNCHANGED <<bufs, flags, scrolls, active_widget>>]_vars

\* an ignored input was taken after a frame that left stdout frozen above
\* its bottom and stderr following its tail
C16_Witness ==
    /\ pc = "draw" /\ last_event = "Ignored"
    /\ area # NoFrame
    /\ ~stdout_autoscroll /\ stdout_scroll_offset >= 1
    /\ stderr_autoscroll /\ stderr_scroll_offset >= 1

\* C17: once a stream's flag is false, no read of that stream is enabled or
\* taken, and every step leaves its chunks as they are.
C17_ClosedNotRead ==
    [][/\ ~read_stdout
            => /\ stdout_buf' = stdout_buf
               /\ ~ENABLED ReadStdoutData(Chunks) /\ ~ENABLED ReadStdoutClose
               /\ pc = "select" => last_event' \notin {"OutData", "OutClose"}
       /\ ~read_stderr
            => /\ stderr_buf' = stderr_buf
               /\ ~ENABLED ReadStderrData(Chunks) /\ ~ENABLED ReadStderrClose
               /\ pc = "select" => last_event' \notin {"ErrData", "ErrClose"}]_vars

\* with stdout ended after one chunk, a later iteration has read a chunk
\* from stderr
C17_Witness ==
    /\ pc = "draw" /\ last_event = "ErrData"
    /\ ~read_stdout /\ read_stderr
    /\ Len(stdout_buf) = 1 /\ Len(stderr_buf) = 1

\* bytes wait on an open stream, and the loop is at its select
StdoutReady == pc = "select" /\ ENABLED ReadStdoutData(Chunks)
StderrReady == pc = "select" /\ ENABLED ReadStderrData(Chunks)

C19_SplitIndependent ==
    out_pipe = <<>> => Concat(stdout_buf) = FromUtf8Lossy(out_sent)

\* offset as u16
AsU16(offset) == offset % 65536

\* Paragraph::scroll((y, 0)): the wrapped line the body of a panel starts at
BodyStart(offset) == AsU16(offset)

\* ScrollbarState::position
ScrollbarPosition(offset) == offset

\* C20: in every frame the body of each panel starts at the wrapped line
\* whose number is the stream's offset, and the position of the scrollbar is
\* the offset, for offsets of 65536 or more too.
C20_BodyAtOffset ==
    FrameEnd =>
        /\ BodyStart(stdout_scroll_offset) = stdout_scroll_offset
        /\ BodyStart(stderr_scroll_offset) = stderr_scroll_offset
        /\ ScrollbarPosition(stdout_scroll_offset) = stdout_scroll_offset
        /\ ScrollbarPosition(stderr_scroll_offset) = stderr_scroll_offset

=============================================================================
